---- MODULE Spec2Model ----
(***************************************************************************)
(* The mutation executor of package worker: addEdges groups the edges of a *)
(* submission by channel, hands each group to the goroutine that owns the  *)
(* channel, and processWorkerCh applies and commits one group at a time.   *)
(* shutdown closes the channels under the write lock once the closer has   *)
(* been signalled.                                                         *)
(***************************************************************************)
EXTENDS Integers, Sequences, FiniteSets, TLC

\* ------------------------------------------------------------------ bounds
\* len(e.workerChan) is 32 in newExecutor; the model runs NumLanes of them.
NumLanes == 2
\* each channel is made with capacity 1000; in the model the first lane holds
\* ChanCap sub-mutations and each further lane one more (see chanCap), so that
\* one lane fills with a single sub-mutation and another can queue two.
ChanCap == 1
\* goroutines that call addEdges concurrently.
NumSubmitters == 2
\* addEdges calls made in one behaviour, over all submitters.
MaxCalls == 2
\* longest edge list of one addEdges call.
MaxEdges == 2
\* start timestamps are 1..MaxTs: the c-th call carries startTsOf(c).
MaxTs == 2

maxPendingEdgesSize == 67108864

\* calls made on top of MaxCalls in a behaviour of SpecDrain.
MaxLateCalls == 1

Lanes == 0 .. (NumLanes - 1)
Submitters == 1 .. NumSubmitters
CallIds == 1 .. (MaxCalls + MaxLateCalls)

\* make(chan *subMutation, 1000): the capacity of the channel of lane l.
chanCap(l) == ChanCap + l

\* The start timestamp the caller passes with its c-th call: timestamps grow
\* from call to call and wrap at MaxTs.
startTsOf(c) == ((c - 1) % MaxTs) + 1

\* ------------------------------------------------------------------ edges
\* A pb.DirectedEdge, reduced to the fields the executor reads: Entity, Attr
\* (its bytes) and the value of edge.Size().
EdgeSet ==
    { [Entity |-> 1, Attr |-> <<110>>, size |-> 67108864],
      [Entity |-> 2, Attr |-> <<110>>, size |-> 33554432] }

RECURSIVE SeqsUpTo(_, _)
SeqsUpTo(S, n) ==
    IF n = 0 THEN { <<>> }
    ELSE LET shorter == SeqsUpTo(S, n - 1)
         IN  shorter \cup { Append(q, x) : q \in { r \in shorter : Len(r) = n - 1 }, x \in S }

EdgeLists == SeqsUpTo(EdgeSet, MaxEdges)

\* ------------------------------------------------------------------ state
VARIABLES
    pendingSize,      \* executor.pendingSize
    rwReaders,        \* submitters holding e.RLock()
    rwWriter,         \* the write side of e.RWMutex: "free", "pending", "held"
    workerChan,       \* lane -> the buffered sub-mutations of e.workerChan[lane]
    chClosed,         \* lane -> close(ch) has run
    closerSignalled,  \* e.closer.HasBeenClosed() is closed
    closerRunning,    \* e.closer's count of running goroutines
    spc,              \* submitter -> position in addEdges
    scall,            \* submitter -> id of its current call (0: none)
    payloadMap,       \* submitter -> payloadMap of its current call
    toSend,           \* submitter -> keys the range over payloadMap has not visited
    sesize,           \* submitter -> esize of its current call
    delayed,          \* submitter -> rampMeter has slept in the current call
    wpc,              \* lane -> position in processWorkerCh
    wpayload,         \* lane -> payload of the current iteration
    widx,             \* lane -> index of the edge being applied
    wesize,           \* lane -> esize of the current iteration
    wretry,           \* lane -> runMutation returned ErrRetry for the current edge
    ptxn,             \* lane -> the overlay of the current iteration
    shpc,             \* position in shutdown
    shidx,            \* next index of the range over e.workerChan in shutdown
    scur,             \* submitter -> key whose send is blocked on a full channel (-1: none)
    panicked,         \* a send on a closed channel or a second close has happened
    calls,            \* history: the addEdges calls, in start order
    returned,         \* history: ids of the calls that have returned
    dropped,          \* history: ids of the calls that took the HasBeenClosed branch
    applied,          \* history: edges runMutation has been called for
    enqueued,         \* history: <<call, lane>> of the sub-mutations sent
    commits,          \* history: <<call, lane>> -> number of CommitToDisk calls
    incs,             \* history: call -> amounts addEdges added to pendingSize
    decs,             \* history: <<call, lane>> -> amounts the worker subtracted
    sent,             \* history: lane -> ids of the calls, in the order of their sends on the lane
    wlog,             \* history: lane -> what processWorkerCh has done, in order
    routeArg,         \* the edge and channel count of the channelID calls under SpecRoute
    routeRet,         \* the results of the channelID calls made so far under SpecRoute
    cancelled         \* the request contexts (ctx of a call) that have been cancelled

execVars == <<pendingSize, rwReaders, rwWriter, workerChan, chClosed,
              closerSignalled, closerRunning, panicked>>
subVars == <<spc, scall, payloadMap, toSend, scur, sesize, delayed>>
wrkVars == <<wpc, wpayload, widx, wesize, wretry, ptxn>>
shutVars == <<shpc, shidx>>
histVars == <<calls, returned, dropped, applied, enqueued, commits, incs, decs, sent, wlog>>
routeVars == <<routeArg, routeRet>>
vars == <<execVars, subVars, wrkVars, shutVars, histVars, routeVars, cancelled>>

\* ------------------------------------------------------------------ channelID
\* binary.BigEndian.PutUint64 for uid < 2^31: the four high bytes are zero.
PutUint64(uid) ==
    [i \in 1 .. 8 |-> IF i <= 4 THEN 0 ELSE (uid \div (256 ^ (8 - i))) % 256]

\* z.MemHash: a deterministic hash of the byte slice (16 bits kept).
RECURSIVE MemHashFrom(_, _, _)
MemHashFrom(b, i, h) ==
    IF i > Len(b) THEN h ELSE MemHashFrom(b, i + 1, (h * 31 + b[i]) % 65536)

MemHash(b) == MemHashFrom(b, 1, 7)

\* Mutant: the index also depends on how many calls came before.
channelIDOf_roundRobin(edge, n) ==
    (MemHash(edge.Attr \o PutUint64(edge.Entity)) + Len(routeRet)) % n

\* The body of channelID for an executor of n channels: b is attr followed by
\* the big-endian uid, cid := z.MemHash(b) % uint64(len(e.workerChan)).
channelIDOf(edge, n) == MemHash(edge.Attr \o PutUint64(edge.Entity)) % n

\* channelID for every edge of EdgeSet on the executor of the model.
ChannelIDs == [edge \in EdgeSet |-> channelIDOf(edge, NumLanes)]

channelID(edge) == ChannelIDs[edge]

\* An edge pointer: the idx-th element of the edge list of call `call`.
Ptr(c, i) == [call |-> c, idx |-> i]
Edge(p) == calls[p.call].edges[p.idx]
Key(e) == <<e.Entity, e.Attr>>

NoPayload == [edges |-> <<>>, ctx |-> 0, startTs |-> 0]
NoTxn == [startTs |-> 0, updated |-> FALSE, serial |-> 0]
\* No channelID call is asked for: the value of routeArg under Spec.
NoRoute == [edge |-> [Entity |-> 0, Attr |-> <<>>], lanes |-> 0]
SubIds == CallIds \X Lanes

\* The call a payload was built by (every payload holds at least one edge).
CallOf(payload) == payload.edges[1].call

RECURSIVE ListSize(_)
ListSize(es) == IF es = <<>> THEN 0 ELSE es[1].size + ListSize(Tail(es))

\* ------------------------------------------------------------------ newExecutor
\* The executor newExecutor returns, with its goroutines spawned.
InitExecutor ==
    /\ pendingSize = 0
    /\ rwReaders = {}
    /\ rwWriter = "free"
    /\ workerChan = [l \in Lanes |-> <<>>]
    /\ chClosed = [l \in Lanes |-> FALSE]
    /\ closerSignalled = FALSE
    /\ closerRunning = NumLanes
    /\ spc = [s \in Submitters |-> "idle"]
    /\ scall = [s \in Submitters |-> 0]
    /\ payloadMap = [s \in Submitters |-> <<>>]
    /\ toSend = [s \in Submitters |-> {}]
    /\ scur = [s \in Submitters |-> -1]
    /\ sesize = [s \in Submitters |-> 0]
    /\ delayed = [s \in Submitters |-> FALSE]
    /\ wpc = [l \in Lanes |-> "recv"]
    /\ wpayload = [l \in Lanes |-> NoPayload]
    /\ widx = [l \in Lanes |-> 0]
    /\ wesize = [l \in Lanes |-> 0]
    /\ wretry = [l \in Lanes |-> FALSE]
    /\ ptxn = [l \in Lanes |-> NoTxn]
    /\ shpc = "wait"
    /\ shidx = 0
    /\ panicked = FALSE
    /\ calls = <<>>
    /\ returned = {}
    /\ dropped = {}
    /\ applied = {}
    /\ enqueued = {}
    /\ commits = [id \in SubIds |-> 0]
    /\ incs = [c \in CallIds |-> <<>>]
    /\ decs = [id \in SubIds |-> <<>>]
    /\ sent = [l \in Lanes |-> <<>>]
    /\ wlog = [l \in Lanes |-> <<>>]
    /\ cancelled = {}

Init ==
    /\ InitExecutor
    /\ routeArg = NoRoute
    /\ routeRet = <<>>

\* ------------------------------------------------------------------ addEdges
newSubMutation(ctx, startTs) == [edges |-> <<>>, ctx |-> ctx, startTs |-> startTs]

\* Mutant: the edge is put in front of the payload's edges.
appendEdge_prepends(payload, p) == [payload EXCEPT !.edges = <<p>> \o @]

\* payload.edges = append(payload.edges, edge)
appendEdge(payload, p) == [payload EXCEPT !.edges = Append(@, p)]

\* Mutant: every edge gets a new subMutation, which replaces the lane's entry.
putEdge_overwrites(pm, cid, ctx, startTs, p) ==
    [k \in (DOMAIN pm) \cup {cid} |->
        IF k = cid THEN appendEdge(newSubMutation(ctx, startTs), p) ELSE pm[k]]

\* One iteration of the loop over edges: look payloadMap[cid] up, create it
\* when missing, append the edge.
putEdge(pm, cid, ctx, startTs, p) ==
    LET payload == IF cid \in DOMAIN pm THEN pm[cid] ELSE newSubMutation(ctx, startTs)
    IN  [k \in (DOMAIN pm) \cup {cid} |-> IF k = cid THEN appendEdge(payload, p) ELSE pm[k]]

RECURSIVE groupFrom(_, _, _, _, _, _)
groupFrom(c, ctx, startTs, edges, i, acc) ==
    IF i > Len(edges) THEN acc
    ELSE groupFrom(c, ctx, startTs, edges, i + 1,
                   [payloadMap |-> putEdge(acc.payloadMap, channelID(edges[i]),
                                           ctx, startTs, Ptr(c, i)),
                    esize |-> acc.esize + edges[i].size])

groupEdges(c, ctx, startTs, edges) ==
    groupFrom(c, ctx, startTs, edges, 1, [payloadMap |-> <<>>, esize |-> 0])

\* A caller enters addEdges(ctx, startTs, edges). Submitters are numbered in the
\* order of their first call; ctx is the caller's own context.
Start(s) ==
    /\ ~panicked
    /\ UNCHANGED routeVars
    /\ UNCHANGED cancelled
    /\ spc[s] = "idle"
    /\ Len(calls) < MaxCalls
    /\ s = 1 \/ \E c \in 1 .. Len(calls) : calls[c].by = s - 1
    /\ \E edges \in EdgeLists, ts \in {startTsOf(Len(calls) + 1)} :
          calls' = Append(calls, [edges |-> edges, ctx |-> s, startTs |-> ts,
                                  by |-> s, after |-> returned])
    /\ scall' = [scall EXCEPT ![s] = Len(calls) + 1]
    /\ spc' = [spc EXCEPT ![s] = "ramp"]
    /\ UNCHANGED <<execVars, wrkVars, shutVars, payloadMap, toSend, scur, sesize, delayed,
                   returned, dropped, applied, enqueued, commits, incs, decs, sent, wlog>>

\* rampMeter returns as soon as it loads a counter that is not above the ceiling.
rampAdmits(size, maxSize) == size <= maxSize

\* Mutant: addEdges does not call rampMeter.
RampPass_noMeter(s) ==
    /\ ~panicked
    /\ UNCHANGED routeVars
    /\ UNCHANGED cancelled
    /\ spc[s] = "ramp"
    /\ LET call == calls[scall[s]]
           g == groupEdges(scall[s], call.ctx, call.startTs, call.edges)
       IN  /\ payloadMap' = [payloadMap EXCEPT ![s] = g.payloadMap]
           /\ sesize' = [sesize EXCEPT ![s] = g.esize]
    /\ spc' = [spc EXCEPT ![s] = "rlock"]
    /\ UNCHANGED <<execVars, wrkVars, shutVars, histVars, scall, toSend, scur, delayed>>

\* rampMeter(&e.pendingSize, maxPendingEdgesSize, ...) returns; the loop that
\* builds payloadMap and esize, which touches nothing shared, follows.
RampPass(s) ==
    /\ ~panicked
    /\ UNCHANGED routeVars
    /\ UNCHANGED cancelled
    /\ spc[s] = "ramp"
    /\ rampAdmits(pendingSize, maxPendingEdgesSize)
    /\ LET call == calls[scall[s]]
           g == groupEdges(scall[s], call.ctx, call.startTs, call.edges)
       IN  /\ payloadMap' = [payloadMap EXCEPT ![s] = g.payloadMap]
           /\ sesize' = [sesize EXCEPT ![s] = g.esize]
    /\ spc' = [spc EXCEPT ![s] = "rlock"]
    /\ UNCHANGED <<execVars, wrkVars, shutVars, histVars, scall, toSend, scur, delayed>>

\* Mutant: a call that finds the counter above the ceiling is turned away.
RampDelay_rejects(s) ==
    /\ ~panicked
    /\ UNCHANGED routeVars
    /\ UNCHANGED cancelled
    /\ spc[s] = "ramp"
    /\ ~rampAdmits(pendingSize, maxPendingEdgesSize)
    /\ delayed' = [delayed EXCEPT ![s] = TRUE]
    /\ spc' = [spc EXCEPT ![s] = "runlock"]
    /\ UNCHANGED <<execVars, wrkVars, shutVars, histVars, scall, payloadMap, toSend,
                   scur, sesize>>

\* rampMeter finds the counter above the ceiling, sleeps, and loads it again.
RampDelay(s) ==
    /\ ~panicked
    /\ UNCHANGED routeVars
    /\ UNCHANGED cancelled
    /\ spc[s] = "ramp"
    /\ ~rampAdmits(pendingSize, maxPendingEdgesSize)
    /\ ~delayed[s]
    /\ delayed' = [delayed EXCEPT ![s] = TRUE]
    /\ UNCHANGED <<execVars, wrkVars, shutVars, histVars, spc, scall, payloadMap, toSend,
                   scur, sesize>>

\* sync.RWMutex: a reader is admitted unless a writer holds or awaits the lock.
canRLock == rwWriter = "free"

\* e.RLock()
RLock(s) ==
    /\ ~panicked
    /\ UNCHANGED routeVars
    /\ UNCHANGED cancelled
    /\ spc[s] = "rlock"
    /\ canRLock
    /\ rwReaders' = rwReaders \cup {s}
    /\ spc' = [spc EXCEPT ![s] = "select"]
    /\ UNCHANGED <<pendingSize, rwWriter, workerChan, chClosed, closerSignalled,
                   closerRunning, panicked, wrkVars, shutVars, histVars, scall,
                   payloadMap, toSend, scur, sesize, delayed>>

\* Mutant: the closed case does not return and falls into the sends.
SelectClosed_fallsThrough(s) ==
    /\ ~panicked
    /\ UNCHANGED routeVars
    /\ UNCHANGED cancelled
    /\ spc[s] = "select"
    /\ closerSignalled
    /\ dropped' = dropped \cup {scall[s]}
    /\ toSend' = [toSend EXCEPT ![s] = DOMAIN payloadMap[s]]
    /\ spc' = [spc EXCEPT ![s] = IF DOMAIN payloadMap[s] = {} THEN "add" ELSE "send"]
    /\ UNCHANGED <<execVars, wrkVars, shutVars, scall, payloadMap, scur, sesize,
                   delayed, calls, returned, applied, enqueued, commits, incs, decs,
                   sent, wlog>>

\* Mutant: the closed case returns without the deferred RUnlock.
SelectClosed_keepsLock(s) ==
    /\ ~panicked
    /\ UNCHANGED routeVars
    /\ UNCHANGED cancelled
    /\ spc[s] = "select"
    /\ closerSignalled
    /\ dropped' = dropped \cup {scall[s]}
    /\ returned' = returned \cup {scall[s]}
    /\ spc' = [spc EXCEPT ![s] = "idle"]
    /\ scall' = [scall EXCEPT ![s] = 0]
    /\ payloadMap' = [payloadMap EXCEPT ![s] = <<>>]
    /\ sesize' = [sesize EXCEPT ![s] = 0]
    /\ delayed' = [delayed EXCEPT ![s] = FALSE]
    /\ UNCHANGED <<execVars, wrkVars, shutVars, toSend, scur, calls, applied, enqueued,
                   commits, incs, decs, sent, wlog>>

\* case <-e.closer.HasBeenClosed(): return
SelectClosed(s) ==
    /\ ~panicked
    /\ UNCHANGED routeVars
    /\ UNCHANGED cancelled
    /\ spc[s] = "select"
    /\ closerSignalled
    /\ dropped' = dropped \cup {scall[s]}
    /\ spc' = [spc EXCEPT ![s] = "runlock"]
    /\ UNCHANGED <<execVars, wrkVars, shutVars, scall, payloadMap, toSend, scur, sesize,
                   delayed, calls, returned, applied, enqueued, commits, incs, decs,
                   sent, wlog>>

\* Mutant: the counter is increased before the sends.
SelectDefault_addsFirst(s) ==
    /\ ~panicked
    /\ UNCHANGED routeVars
    /\ UNCHANGED cancelled
    /\ spc[s] = "select"
    /\ ~closerSignalled
    /\ pendingSize' = pendingSize + sesize[s]
    /\ incs' = [incs EXCEPT ![scall[s]] = Append(@, sesize[s])]
    /\ toSend' = [toSend EXCEPT ![s] = DOMAIN payloadMap[s]]
    /\ spc' = [spc EXCEPT ![s] = IF DOMAIN payloadMap[s] = {} THEN "runlock" ELSE "send"]
    /\ UNCHANGED <<rwReaders, rwWriter, workerChan, chClosed, closerSignalled,
                   closerRunning, panicked, wrkVars, shutVars, scall, payloadMap, scur,
                   sesize, delayed, calls, returned, dropped, applied, enqueued, commits,
                   decs, sent, wlog>>

\* default: start the range over payloadMap.
SelectDefault(s) ==
    /\ ~panicked
    /\ UNCHANGED routeVars
    /\ UNCHANGED cancelled
    /\ spc[s] = "select"
    /\ ~closerSignalled
    /\ toSend' = [toSend EXCEPT ![s] = DOMAIN payloadMap[s]]
    /\ spc' = [spc EXCEPT ![s] = IF DOMAIN payloadMap[s] = {} THEN "add" ELSE "send"]
    /\ UNCHANGED <<execVars, wrkVars, shutVars, histVars, scall, payloadMap, scur, sesize,
                   delayed>>

\* The keys the range may visit next: any unvisited key, or the one whose send
\* is blocked.
nextKeys(s) == IF scur[s] = -1 THEN toSend[s] ELSE {scur[s]}

\* Mutant: the closer is checked again before each send, and a closed closer
\* ends the call.
Send_checksCloser(s, cid) ==
    /\ ~panicked
    /\ UNCHANGED routeVars
    /\ UNCHANGED cancelled
    /\ spc[s] = "send"
    /\ cid \in nextKeys(s)
    /\ IF closerSignalled
       THEN /\ spc' = [spc EXCEPT ![s] = "runlock"]
            /\ UNCHANGED <<workerChan, toSend, scur, enqueued, sent>>
       ELSE /\ ~chClosed[cid]
            /\ Len(workerChan[cid]) < chanCap(cid)
            /\ workerChan' = [workerChan EXCEPT ![cid] = Append(@, payloadMap[s][cid])]
            /\ toSend' = [toSend EXCEPT ![s] = @ \ {cid}]
            /\ scur' = [scur EXCEPT ![s] = -1]
            /\ enqueued' = enqueued \cup {<<scall[s], cid>>}
            /\ sent' = [sent EXCEPT ![cid] = Append(@, scall[s])]
            /\ spc' = [spc EXCEPT ![s] = IF toSend[s] = {cid} THEN "add" ELSE "send"]
    /\ UNCHANGED <<pendingSize, rwReaders, rwWriter, chClosed, closerSignalled,
                   closerRunning, panicked, wrkVars, shutVars, scall, payloadMap, sesize,
                   delayed, calls, returned, dropped, applied, commits, incs, decs, wlog>>

\* Mutant: a send that finds the channel full gives the payload up and the
\* range moves on.
Send_skipsWhenFull(s, cid) ==
    /\ ~panicked
    /\ UNCHANGED routeVars
    /\ UNCHANGED cancelled
    /\ spc[s] = "send"
    /\ cid \in nextKeys(s)
    /\ ~chClosed[cid]
    /\ IF Len(workerChan[cid]) < chanCap(cid)
       THEN /\ workerChan' = [workerChan EXCEPT ![cid] = Append(@, payloadMap[s][cid])]
            /\ enqueued' = enqueued \cup {<<scall[s], cid>>}
            /\ sent' = [sent EXCEPT ![cid] = Append(@, scall[s])]
       ELSE UNCHANGED <<workerChan, enqueued, sent>>
    /\ toSend' = [toSend EXCEPT ![s] = @ \ {cid}]
    /\ scur' = [scur EXCEPT ![s] = -1]
    /\ spc' = [spc EXCEPT ![s] = IF toSend[s] = {cid} THEN "add" ELSE "send"]
    /\ UNCHANGED <<pendingSize, rwReaders, rwWriter, chClosed, closerSignalled,
                   closerRunning, panicked, wrkVars, shutVars, scall, payloadMap, sesize,
                   delayed, calls, returned, dropped, applied, commits, incs, decs, wlog>>

\* e.workerChan[cid] <- payload
Send(s, cid) ==
    /\ ~panicked
    /\ UNCHANGED routeVars
    /\ UNCHANGED cancelled
    /\ spc[s] = "send"
    /\ cid \in nextKeys(s)
    /\ IF chClosed[cid]
       THEN /\ panicked' = TRUE
            /\ spc' = [spc EXCEPT ![s] = "panic"]
            /\ UNCHANGED <<workerChan, toSend, scur, enqueued, sent>>
       ELSE /\ Len(workerChan[cid]) < chanCap(cid)
            /\ workerChan' = [workerChan EXCEPT ![cid] = Append(@, payloadMap[s][cid])]
            /\ toSend' = [toSend EXCEPT ![s] = @ \ {cid}]
            /\ scur' = [scur EXCEPT ![s] = -1]
            /\ enqueued' = enqueued \cup {<<scall[s], cid>>}
            /\ sent' = [sent EXCEPT ![cid] = Append(@, scall[s])]
            /\ spc' = [spc EXCEPT ![s] = IF toSend[s] = {cid} THEN "add" ELSE "send"]
            /\ UNCHANGED panicked
    /\ UNCHANGED <<pendingSize, rwReaders, rwWriter, chClosed, closerSignalled,
                   closerRunning, wrkVars, shutVars, scall, payloadMap, sesize, delayed,
                   calls, returned, dropped, applied, commits, incs, decs, wlog>>

\* The send finds the channel full and blocks on it.
SendBlock(s, cid) ==
    /\ ~panicked
    /\ UNCHANGED routeVars
    /\ UNCHANGED cancelled
    /\ spc[s] = "send"
    /\ scur[s] = -1
    /\ cid \in toSend[s]
    /\ ~chClosed[cid]
    /\ Len(workerChan[cid]) >= chanCap(cid)
    /\ scur' = [scur EXCEPT ![s] = cid]
    /\ UNCHANGED <<execVars, wrkVars, shutVars, histVars, spc, scall, payloadMap, toSend,
                   sesize, delayed>>

\* Mutant: the counter is not increased.
addPending_forgets(s) == pendingSize

\* atomic.AddInt64(&e.pendingSize, esize)
addPending(s) == pendingSize + sesize[s]

\* The add is the last statement of addEdges; the read lock is still held.
Add(s) ==
    /\ ~panicked
    /\ UNCHANGED routeVars
    /\ UNCHANGED cancelled
    /\ spc[s] = "add"
    /\ pendingSize' = addPending(s)
    /\ incs' = [incs EXCEPT ![scall[s]] = Append(@, pendingSize' - pendingSize)]
    /\ spc' = [spc EXCEPT ![s] = "runlock"]
    /\ UNCHANGED <<rwReaders, rwWriter, workerChan, chClosed, closerSignalled,
                   closerRunning, panicked, wrkVars, shutVars, scall, payloadMap, toSend,
                   scur, sesize, delayed, calls, returned, dropped, applied, enqueued,
                   commits, decs, sent, wlog>>

\* defer e.RUnlock(); addEdges returns.
RUnlock(s) ==
    /\ ~panicked
    /\ UNCHANGED routeVars
    /\ UNCHANGED cancelled
    /\ spc[s] = "runlock"
    /\ rwReaders' = rwReaders \ {s}
    /\ returned' = returned \cup {scall[s]}
    /\ spc' = [spc EXCEPT ![s] = "idle"]
    /\ scall' = [scall EXCEPT ![s] = 0]
    /\ payloadMap' = [payloadMap EXCEPT ![s] = <<>>]
    /\ sesize' = [sesize EXCEPT ![s] = 0]
    /\ delayed' = [delayed EXCEPT ![s] = FALSE]
    /\ UNCHANGED <<pendingSize, rwWriter, workerChan, chClosed, closerSignalled,
                   closerRunning, panicked, wrkVars, shutVars, toSend, scur, calls,
                   dropped, applied, enqueued, commits, incs, decs, sent, wlog>>

\* ------------------------------------------------------------------ processWorkerCh
\* One entry of wlog: the call `op` the worker made for the sub-mutation of call
\* `call`, its argument, the serial of the overlay it was made on (0: none) and
\* the error it returned.
Event(op, call, arg, txn, err) ==
    [op |-> op, call |-> call, arg |-> arg, txn |-> txn, err |-> err]

logged(l, ev) == [wlog EXCEPT ![l] = Append(@, ev)]

\* The number of overlays the worker of lane l has created.
txnsMade(l) == Cardinality({ i \in 1 .. Len(wlog[l]) : wlog[l][i].op = "NewTxn" })

\* posting.NewTxn(startTs): a fresh overlay, the serial-th of its worker.
NewTxn(startTs, serial) == [startTs |-> startTs, updated |-> FALSE, serial |-> serial]

\* The errors the collaborators return. runMutation may return ErrRetry any
\* number of times for an edge before its final result; the final results are
\* fixed per edge, sub-mutation and writer, so that every kind of failure meets
\* every kind of success: the c-th edge of the c-th call ends in an error other
\* than ErrRetry, CommitToDisk fails for the start timestamp MaxTs, and
\* writer.Wait fails for the writer of the last lane. runMutation is handed
\* payload.ctx: once that context is cancelled it may also give the edge up
\* with an error.
runMutationErrs(ctx, p) ==
    {"ErrRetry", IF p.idx = p.call THEN "error" ELSE "nil"}
    \cup (IF ctx \in cancelled THEN {"error"} ELSE {})
commitToDiskErrs(payload) == {IF payload.startTs = MaxTs THEN "error" ELSE "nil"}
waitErrs(l) == {IF l = NumLanes - 1 THEN "error" ELSE "nil"}

\* Mutant: the range takes the newest payload of the channel.
recvFrom_newest(ch) == ch[Len(ch)]

\* for payload := range ch: the next payload is the head of the channel.
recvFrom(ch) == Head(ch)

\* What the receive leaves in the channel.
restOf(ch, payload) ==
    LET i == CHOOSE j \in 1 .. Len(ch) : ch[j] = payload
    IN  SubSeq(ch, 1, i - 1) \o SubSeq(ch, i + 1, Len(ch))

\* A payload is received; esize starts at 0 and ptxn is posting.NewTxn(startTs).
Recv(l) ==
    /\ ~panicked
    /\ UNCHANGED routeVars
    /\ UNCHANGED cancelled
    /\ wpc[l] = "recv"
    /\ workerChan[l] # <<>>
    /\ wpayload' = [wpayload EXCEPT ![l] = recvFrom(workerChan[l])]
    /\ workerChan' = [workerChan EXCEPT ![l] = restOf(@, wpayload'[l])]
    /\ wesize' = [wesize EXCEPT ![l] = 0]
    /\ ptxn' = [ptxn EXCEPT ![l] = NewTxn(wpayload'[l].startTs, txnsMade(l) + 1)]
    /\ wlog' = logged(l, Event("NewTxn", CallOf(wpayload'[l]), ptxn'[l].startTs,
                               ptxn'[l].serial, "nil"))
    /\ widx' = [widx EXCEPT ![l] = 1]
    /\ wretry' = [wretry EXCEPT ![l] = FALSE]
    /\ wpc' = [wpc EXCEPT ![l] = "apply"]
    /\ UNCHANGED <<pendingSize, rwReaders, rwWriter, chClosed, closerSignalled,
                   closerRunning, panicked, subVars, shutVars, calls, returned, dropped,
                   applied, enqueued, commits, incs, decs, sent>>

\* Mutant: the worker leaves as soon as the channel is closed.
canExit_noDrain(l) == chClosed[l]

\* Mutant: the worker leaves as soon as it finds the channel empty.
canExit_whenEmpty(l) == workerChan[l] = <<>>

\* The range ends when the channel is closed and empty; defer e.closer.Done().
canExit(l) == chClosed[l] /\ workerChan[l] = <<>>

Exit(l) ==
    /\ ~panicked
    /\ UNCHANGED routeVars
    /\ UNCHANGED cancelled
    /\ wpc[l] = "recv"
    /\ canExit(l)
    /\ wpc' = [wpc EXCEPT ![l] = "exited"]
    /\ closerRunning' = closerRunning - 1
    /\ UNCHANGED <<pendingSize, rwReaders, rwWriter, workerChan, chClosed,
                   closerSignalled, panicked, subVars, shutVars, histVars, wpayload,
                   widx, wesize, wretry, ptxn>>

\* Mutant: ErrRetry is treated like any other error and the edge is given up.
nextIdx_noRetry(i, err) == i + 1

\* Mutant: an error other than ErrRetry is retried too.
nextIdx_retriesErrors(i, err) == IF err = "nil" THEN i + 1 ELSE i

\* The inner loop moves to the next edge unless runMutation returned ErrRetry.
nextIdx(i, err) == IF err = "ErrRetry" THEN i ELSE i + 1

\* Mutant: the range walks the payload's edges backwards.
edgeAt_reversed(payload, i) == payload.edges[Len(payload.edges) + 1 - i]

\* for _, edge := range payload.edges: the i-th edge of the payload.
edgeAt(payload, i) == payload.edges[i]

\* Mutant: esize grows on every attempt, retries included.
growEsize_everyAttempt(l, p) == wesize[l] + Edge(p).size

\* Mutant: esize is set to the size of the edge, not increased by it.
growEsize_overwrites(l, p) == Edge(p).size

\* esize += int64(edge.Size()) runs when the edge is reached, not when
\* runMutation is retried for it.
growEsize(l, p) == IF wretry[l] THEN wesize[l] ELSE wesize[l] + Edge(p).size

\* One call of runMutation(payload.ctx, edge, ptxn) that returns err: nil,
\* posting.ErrRetry, or another error, which is logged.
ApplyWith(l, err) ==
    /\ ~panicked
    /\ UNCHANGED routeVars
    /\ UNCHANGED cancelled
    /\ wpc[l] = "apply"
    /\ widx[l] <= Len(wpayload[l].edges)
    /\ LET p == edgeAt(wpayload[l], widx[l])
       IN  /\ err \in runMutationErrs(wpayload[l].ctx, p)
           /\ wesize' = [wesize EXCEPT ![l] = growEsize(l, p)]
           /\ applied' = applied \cup {p}
           /\ wlog' = IF err = "ErrRetry" THEN wlog
                      ELSE logged(l, Event("runMutation", CallOf(wpayload[l]), p.idx,
                                           ptxn[l].serial, err))
    /\ wretry' = [wretry EXCEPT ![l] = (err = "ErrRetry")]
    /\ widx' = [widx EXCEPT ![l] = nextIdx(@, err)]
    /\ UNCHANGED <<execVars, subVars, shutVars, wpc, wpayload, ptxn, calls, returned,
                   dropped, enqueued, commits, incs, decs, sent>>

Apply(l) == \E err \in {"nil", "ErrRetry", "error"} : ApplyWith(l, err)

\* Mutant: the loop over the edges is left one edge early.
canCommit_early(l) == widx[l] >= Len(wpayload[l].edges)

\* The loop over payload.edges has ended.
canCommit(l) == widx[l] > Len(wpayload[l].edges)

\* ptxn.Update(), then ptxn.CommitToDisk(writer, payload.startTs), which returns
\* err: nil, or an error, which is logged.
CommitWith(l, err) ==
    /\ ~panicked
    /\ UNCHANGED routeVars
    /\ UNCHANGED cancelled
    /\ wpc[l] = "apply"
    /\ canCommit(l)
    /\ err \in commitToDiskErrs(wpayload[l])
    /\ ptxn' = [ptxn EXCEPT ![l].updated = TRUE]
    /\ commits' = [commits EXCEPT ![<<CallOf(wpayload[l]), l>>] = @ + 1]
    /\ wlog' = [wlog EXCEPT ![l] =
                   @ \o << Event("Update", CallOf(wpayload[l]), 0, ptxn[l].serial, "nil"),
                           Event("CommitToDisk", CallOf(wpayload[l]), wpayload[l].startTs,
                                 ptxn[l].serial, err) >>]
    /\ wpc' = [wpc EXCEPT ![l] = "wait"]
    /\ UNCHANGED <<execVars, subVars, shutVars, wpayload, widx, wesize, wretry, calls,
                   returned, dropped, applied, enqueued, incs, decs, sent>>

Commit(l) == \E err \in {"nil", "error"} : CommitWith(l, err)

\* Mutant: a failed wait sends the worker back to commit the overlay again.
afterWait_recommits(err) == IF err = "nil" THEN "dec" ELSE "apply"

\* Where the worker goes after writer.Wait(): the error is logged and the
\* atomic add follows in either case.
afterWait(err) == "dec"

\* writer.Wait(), which returns err: nil, or an error, which is logged.
WaitWith(l, err) ==
    /\ ~panicked
    /\ UNCHANGED routeVars
    /\ UNCHANGED cancelled
    /\ wpc[l] = "wait"
    /\ err \in waitErrs(l)
    /\ wlog' = logged(l, Event("Wait", CallOf(wpayload[l]), 0, 0, err))
    /\ wpc' = [wpc EXCEPT ![l] = afterWait(err)]
    /\ UNCHANGED <<execVars, subVars, shutVars, wpayload, widx, wesize, wretry, ptxn,
                   calls, returned, dropped, applied, enqueued, commits, incs, decs, sent>>

Wait(l) == \E err \in {"nil", "error"} : WaitWith(l, err)

\* Mutant: the counter is left alone when the payload's context was cancelled.
subPending_skipsCancelled(l) ==
    IF wpayload[l].ctx \in cancelled THEN pendingSize ELSE pendingSize - wesize[l]

\* atomic.AddInt64(&e.pendingSize, -esize)
subPending(l) == pendingSize - wesize[l]

Dec(l) ==
    /\ ~panicked
    /\ UNCHANGED routeVars
    /\ UNCHANGED cancelled
    /\ wpc[l] = "dec"
    /\ pendingSize' = subPending(l)
    /\ decs' = [decs EXCEPT ![<<CallOf(wpayload[l]), l>>] = Append(@, pendingSize - pendingSize')]
    /\ wlog' = logged(l, Event("AddInt64", CallOf(wpayload[l]), pendingSize' - pendingSize,
                               0, "nil"))
    /\ wpayload' = [wpayload EXCEPT ![l] = NoPayload]
    /\ widx' = [widx EXCEPT ![l] = 0]
    /\ wesize' = [wesize EXCEPT ![l] = 0]
    /\ wretry' = [wretry EXCEPT ![l] = FALSE]
    /\ ptxn' = [ptxn EXCEPT ![l] = NoTxn]
    /\ wpc' = [wpc EXCEPT ![l] = "recv"]
    /\ UNCHANGED <<rwReaders, rwWriter, workerChan, chClosed, closerSignalled,
                   closerRunning, panicked, subVars, shutVars, calls, returned, dropped,
                   applied, enqueued, commits, incs, sent>>

\* ------------------------------------------------------------------ closer, shutdown
\* e.closer.Signal(): the server asks the executor to stop.
Signal ==
    /\ ~panicked
    /\ UNCHANGED routeVars
    /\ UNCHANGED cancelled
    /\ ~closerSignalled
    /\ closerSignalled' = TRUE
    /\ UNCHANGED <<pendingSize, rwReaders, rwWriter, workerChan, chClosed, closerRunning,
                   panicked, subVars, wrkVars, shutVars, histVars>>

\* <-e.closer.HasBeenClosed(), then e.Lock() announces the writer.
ShutdownLock ==
    /\ ~panicked
    /\ UNCHANGED routeVars
    /\ UNCHANGED cancelled
    /\ shpc = "wait"
    /\ closerSignalled
    /\ rwWriter = "free"
    /\ rwWriter' = "pending"
    /\ shpc' = "locking"
    /\ UNCHANGED <<pendingSize, rwReaders, workerChan, chClosed, closerSignalled,
                   closerRunning, panicked, subVars, wrkVars, shidx, histVars>>

\* Mutant: the writer does not wait for the readers.
canLock_ignoresReaders == TRUE

\* e.Lock() returns once no reader holds the lock.
canLock == rwReaders = {}

ShutdownAcquire ==
    /\ ~panicked
    /\ UNCHANGED routeVars
    /\ UNCHANGED cancelled
    /\ shpc = "locking"
    /\ canLock
    /\ rwWriter' = "held"
    /\ shpc' = "close"
    /\ shidx' = 0
    /\ UNCHANGED <<pendingSize, rwReaders, workerChan, chClosed, closerSignalled,
                   closerRunning, panicked, subVars, wrkVars, histVars>>

\* close(ch) for the next channel of e.workerChan.
ShutdownClose ==
    /\ ~panicked
    /\ UNCHANGED routeVars
    /\ UNCHANGED cancelled
    /\ shpc = "close"
    /\ shidx < NumLanes
    /\ IF chClosed[shidx]
       THEN panicked' = TRUE /\ UNCHANGED chClosed
       ELSE chClosed' = [chClosed EXCEPT ![shidx] = TRUE] /\ UNCHANGED panicked
    /\ shidx' = shidx + 1
    /\ UNCHANGED <<pendingSize, rwReaders, rwWriter, workerChan, closerSignalled,
                   closerRunning, subVars, wrkVars, shpc, histVars>>

\* defer e.Unlock(); shutdown returns.
ShutdownUnlock ==
    /\ ~panicked
    /\ UNCHANGED routeVars
    /\ UNCHANGED cancelled
    /\ shpc = "close"
    /\ shidx = NumLanes
    /\ rwWriter' = "free"
    /\ shpc' = "done"
    /\ UNCHANGED <<pendingSize, rwReaders, workerChan, chClosed, closerSignalled,
                   closerRunning, panicked, subVars, wrkVars, shidx, histVars>>

\* ------------------------------------------------------------------ specification
SubmitterStep(s) ==
    \/ Start(s)
    \/ RampPass(s)
    \/ RampDelay(s)
    \/ RLock(s)
    \/ SelectClosed(s)
    \/ SelectDefault(s)
    \/ \E cid \in Lanes : Send(s, cid)
    \/ \E cid \in Lanes : SendBlock(s, cid)
    \/ Add(s)
    \/ RUnlock(s)

WorkerStep(l) ==
    \/ Recv(l)
    \/ Exit(l)
    \/ Apply(l)
    \/ Commit(l)
    \/ Wait(l)
    \/ Dec(l)

ShutdownStep ==
    \/ ShutdownLock
    \/ ShutdownAcquire
    \/ ShutdownClose
    \/ ShutdownUnlock

\* A panic ends the process: no action is enabled once panicked holds.
Next ==
    \/ \E s \in Submitters : SubmitterStep(s)
    \/ \E l \in Lanes : WorkerStep(l)
    \/ Signal
    \/ ShutdownStep

Spec == Init /\ [][Next]_vars

\* ------------------------------------------------------------------ fair scheduling
\* A step of the worker of lane l that ends a call: runMutation returns
\* something other than ErrRetry, or any other statement of the loop runs.
WorkerProgress(l) ==
    \/ Recv(l)
    \/ ApplyWith(l, "nil")
    \/ ApplyWith(l, "error")
    \/ Commit(l)
    \/ Wait(l)
    \/ Dec(l)
    \/ Exit(l)

\* The scheduler runs every worker that can take a step, no edge is answered
\* with ErrRetry for ever, and a caller asleep in rampMeter wakes up and loads
\* the counter again.
Fairness ==
    /\ \A l \in Lanes : WF_vars(WorkerProgress(l))
    /\ \A s \in Submitters : WF_vars(RampPass(s))

\* The calls under SpecFair carry every edge of EdgeSet once, by growing
\* entity: each is larger than the ceiling and has a sub-mutation for every
\* lane, so that every accepted call makes rampMeter delay the next.
StartHeavy(s) ==
    /\ Start(s)
    /\ LET edges == calls'[Len(calls')].edges
       IN  /\ { edges[i] : i \in 1 .. Len(edges) } = EdgeSet
           /\ \A i, j \in 1 .. Len(edges) : i < j => edges[i].Entity < edges[j].Entity
           /\ ListSize(edges) > maxPendingEdgesSize

FairSubmitterStep(s) ==
    \/ StartHeavy(s)
    \/ RampPass(s)
    \/ RampDelay(s)
    \/ RLock(s)
    \/ SelectClosed(s)
    \/ SelectDefault(s)
    \/ \E cid \in Lanes : Send(s, cid)
    \/ \E cid \in Lanes : SendBlock(s, cid)
    \/ Add(s)
    \/ RUnlock(s)

FairNext ==
    \/ \E s \in Submitters : FairSubmitterStep(s)
    \/ \E l \in Lanes : WorkerStep(l)
    \/ Signal
    \/ ShutdownStep

SpecFair == Init /\ [][FairNext]_vars /\ Fairness

\* ------------------------------------------------------------------ shutdown under load
\* A caller enters addEdges after the calls of SpecFair have been made, while
\* shutdown waits for the write lock behind a caller whose send is blocked on a
\* full channel: Start for one call more, with the edge list of StartHeavy.
StartLate(s) ==
    /\ ~panicked
    /\ UNCHANGED routeVars
    /\ UNCHANGED cancelled
    /\ spc[s] = "idle"
    /\ Len(calls) >= MaxCalls
    /\ Len(calls) < MaxCalls + MaxLateCalls
    /\ rwWriter = "pending"
    /\ \E r \in Submitters : scur[r] # -1
    /\ \E edges \in EdgeLists, ts \in {startTsOf(Len(calls) + 1)} :
          /\ { edges[i] : i \in 1 .. Len(edges) } = EdgeSet
          /\ \A i, j \in 1 .. Len(edges) : i < j => edges[i].Entity < edges[j].Entity
          /\ calls' = Append(calls, [edges |-> edges, ctx |-> s, startTs |-> ts,
                                     by |-> s, after |-> returned])
    /\ scall' = [scall EXCEPT ![s] = Len(calls) + 1]
    /\ spc' = [spc EXCEPT ![s] = "ramp"]
    /\ UNCHANGED <<execVars, wrkVars, shutVars, payloadMap, toSend, scur, sesize, delayed,
                   returned, dropped, applied, enqueued, commits, incs, decs, sent, wlog>>

\* A step of addEdges other than the sleep of rampMeter.
SubmitterProgress(s) ==
    \/ RampPass(s)
    \/ RLock(s)
    \/ SelectClosed(s)
    \/ SelectDefault(s)
    \/ \E cid \in Lanes : Send(s, cid)
    \/ Add(s)
    \/ RUnlock(s)

\* The scheduler runs every goroutine that can take a step: the workers (no
\* edge is answered with ErrRetry for ever), shutdown, and the callers inside
\* addEdges.
DrainFairness ==
    /\ \A l \in Lanes : WF_vars(WorkerProgress(l))
    /\ WF_vars(ShutdownStep)
    /\ \A s \in Submitters : WF_vars(SubmitterProgress(s))

DrainSubmitterStep(s) ==
    \/ StartHeavy(s)
    \/ StartLate(s)
    \/ RampPass(s)
    \/ RampDelay(s)
    \/ RLock(s)
    \/ SelectClosed(s)
    \/ SelectDefault(s)
    \/ \E cid \in Lanes : Send(s, cid)
    \/ \E cid \in Lanes : SendBlock(s, cid)
    \/ Add(s)
    \/ RUnlock(s)

DrainNext ==
    \/ \E s \in Submitters : DrainSubmitterStep(s)
    \/ \E l \in Lanes : WorkerStep(l)
    \/ Signal
    \/ ShutdownStep

SpecDrain == Init /\ [][DrainNext]_vars /\ DrainFairness

\* ------------------------------------------------------------------ cancelled contexts
\* The caller cancels the context it passed to addEdges, at any time from the
\* call on. addEdges and processWorkerCh never read ctx.Done() or ctx.Err():
\* the context only travels in the subMutation to runMutation.
Cancel(ctx) ==
    /\ ~panicked
    /\ ctx \notin cancelled
    /\ \E c \in 1 .. Len(calls) : calls[c].ctx = ctx
    /\ cancelled' = cancelled \cup {ctx}
    /\ UNCHANGED <<execVars, subVars, wrkVars, shutVars, histVars, routeVars>>

\* The executor with callers that cancel their contexts. The calls are those
\* of SpecFair; nothing is assumed of the scheduler.
CancelNext ==
    \/ \E s \in Submitters : FairSubmitterStep(s)
    \/ \E l \in Lanes : WorkerStep(l)
    \/ Signal
    \/ ShutdownStep
    \/ \E ctx \in Submitters : Cancel(ctx)

SpecCancel == Init /\ [][CancelNext]_vars

\* ------------------------------------------------------------------ channelID alone
\* channelID is called on an executor that goes through shutdown meanwhile:
\* the edge and the number of channels are fixed at the start, the calls and the
\* steps of shutdown and of the workers interleave.
MaxRouteCalls == 3

RouteArgs ==
    [edge : [Entity : {1, 2, 258}, Attr : { <<110>>, <<110, 97>> }],
     lanes : {1, NumLanes, 3, 32}]

InitRoute ==
    /\ InitExecutor
    /\ routeArg \in RouteArgs
    /\ routeRet = <<>>

\* One call of channelID; the state of the closer at the call is kept with the
\* result.
ChannelIDCall ==
    /\ ~panicked
    /\ routeArg # NoRoute
    /\ Len(routeRet) < MaxRouteCalls
    /\ routeRet' = Append(routeRet, [cid |-> channelIDOf(routeArg.edge, routeArg.lanes),
                                     closed |-> closerSignalled,
                                     running |-> closerRunning])
    /\ UNCHANGED <<routeArg, execVars, subVars, wrkVars, shutVars, histVars, cancelled>>

RouteNext ==
    \/ ChannelIDCall
    \/ Signal
    \/ ShutdownStep
    \/ \E l \in Lanes : Exit(l)

SpecRoute == InitRoute /\ [][RouteNext]_vars

\* ------------------------------------------------------------------ properties
Started == 1 .. Len(calls)

AllPtrs == { Ptr(c, i) : c \in Started, i \in 1 .. MaxEdges } \cap
           { p \in [call : Started, idx : 1 .. MaxEdges] : p.idx <= Len(calls[p.call].edges) }

\* The lanes the edges of call c route to.
LanesOf(c) == { channelID(calls[c].edges[i]) : i \in 1 .. Len(calls[c].edges) }

\* The byte size of the edges of call c that route to lane l.
RECURSIVE LaneSizeFrom(_, _, _)
LaneSizeFrom(es, l, i) ==
    IF i > Len(es) THEN 0
    ELSE (IF channelID(es[i]) = l THEN es[i].size ELSE 0) + LaneSizeFrom(es, l, i + 1)

SubSize(id) == LaneSizeFrom(calls[id[1]].edges, id[2], 1)

\* M1 is submitted before M2: earlier in one edge list, or in a call that had
\* returned when the call of M2 started.
SubmittedBefore(p1, p2) ==
    \/ p1.call = p2.call /\ p1.idx < p2.idx
    \/ p1.call # p2.call /\ p1.call \in calls[p2.call].after

ShutdownComplete ==
    /\ closerSignalled
    /\ \A l \in Lanes : chClosed[l] /\ wpc[l] = "exited"

Quiescent ==
    /\ \A s \in Submitters : spc[s] = "idle"
    /\ \A l \in Lanes : workerChan[l] = <<>> /\ wpc[l] \in {"recv", "exited"}

\* C1: per-key ordering. Whenever runMutation has been called for an edge M2,
\* it has already been called for every edge M1 of the same (entity, attribute)
\* that was submitted before M2; so the first apply of M1 precedes that of M2.
C1_PerKeyOrdering ==
    \A p2 \in applied : \A p1 \in AllPtrs :
        (Key(Edge(p1)) = Key(Edge(p2)) /\ SubmittedBefore(p1, p2)) => p1 \in applied

\* Two edges of one key from two calls, the first returned before the second
\* started, have both been applied, and one of them was retried on the way.
C1_Witness ==
    \E p1 \in applied, p2 \in applied :
        /\ p1.call # p2.call
        /\ p1.call \in calls[p2.call].after
        /\ Key(Edge(p1)) = Key(Edge(p2))
        /\ \E l \in Lanes : wretry[l]

\* C2: drain on shutdown. No sub-mutation is committed twice, and once the
\* closer is signalled, every channel closed and every worker gone, each
\* sub-mutation that was sent has had exactly one CommitToDisk and no channel
\* holds anything.
C2_DrainOnShutdown ==
    /\ \A id \in SubIds : commits[id] <= 1
    /\ ShutdownComplete =>
          /\ \A l \in Lanes : workerChan[l] = <<>>
          /\ \A id \in SubIds : commits[id] = IF id \in enqueued THEN 1 ELSE 0

\* Shutdown has completed after at least two sub-mutations were sent.
C2_Witness == ShutdownComplete /\ Cardinality(enqueued) >= 2

\* C3: no send on a closed channel. No send ever hits a closed channel and no
\* channel is closed twice; a submitter between its shutdown check and its last
\* send holds the read lock while shutdown is not in its close loop; a channel
\* is closed only after the signal, by shutdown holding the write lock.
C3_NoSendOnClosed ==
    /\ ~panicked
    /\ \A s \in Submitters :
          /\ spc[s] \in {"select", "send"} => s \in rwReaders /\ shpc # "close"
          /\ spc[s] = "send" => \A l \in Lanes : ~chClosed[l]
    /\ shpc = "close" => rwWriter = "held" /\ rwReaders = {}
    /\ \A l \in Lanes : chClosed[l] => closerSignalled /\ shpc \in {"close", "done"}

\* A submitter is sending under the read lock while shutdown, already signalled,
\* waits for the write lock.
C3_Witness ==
    \E s \in Submitters : spc[s] = "send" /\ shpc = "locking" /\ closerSignalled

\* C4: shutdown rejects new work. A call whose shutdown check saw the signal
\* sends nothing on any lane, adds nothing to pendingSize and goes straight to
\* its return.
C4_ShutdownRejects ==
    /\ \A c \in dropped :
          /\ \A l \in Lanes : <<c, l>> \notin enqueued
          /\ incs[c] = <<>>
    /\ \A s \in Submitters : scall[s] \in dropped => spc[s] = "runlock"

\* A call with edges for two lanes saw the signal and has returned.
C4_Witness ==
    \E c \in dropped : c \in returned /\ Cardinality(LanesOf(c)) = 2

\* C5: byte accounting. A call adds to pendingSize at most once, the byte size
\* of its edge list, and exactly once when it was accepted and has returned; a
\* sub-mutation is subtracted at most once, after its commit, by the byte size
\* of its edges; with no call in progress and all sent work processed the
\* counter is 0.
C5_ByteAccounting ==
    /\ \A c \in Started :
          /\ Len(incs[c]) <= 1
          /\ incs[c] # <<>> => incs[c][1] = ListSize(calls[c].edges)
          /\ c \in dropped => incs[c] = <<>>
          /\ c \in returned \ dropped => Len(incs[c]) = 1
    /\ \A id \in SubIds :
          /\ Len(decs[id]) <= commits[id]
          /\ Len(decs[id]) <= 1
          /\ decs[id] # <<>> => id \in enqueued /\ decs[id][1] = SubSize(id)
    /\ Quiescent =>
          /\ pendingSize = 0
          /\ \A id \in enqueued : Len(decs[id]) = 1

\* Shutdown has completed, every call has returned, an accepted call carried
\* two edges, and the counter is back to 0.
C5_Witness ==
    /\ Quiescent
    /\ ShutdownComplete
    /\ \E c \in returned \ dropped : Len(calls[c].edges) = 2

\* The byte size of the sub-mutations submitter s has sent in its current call
\* while its atomic add is still to come.
SentUnadded(s) ==
    IF spc[s] \in {"send", "add"}
    THEN ListSize(calls[scall[s]].edges)
         - LET RECURSIVE rest(_)
               rest(ls) == IF ls = {} THEN 0
                           ELSE LET l == CHOOSE x \in ls : TRUE
                                IN  SubSize(<<scall[s], l>>) + rest(ls \ {l})
           IN  rest(toSend[s])
    ELSE 0

RECURSIVE SentUnaddedUpTo(_)
SentUnaddedUpTo(n) == IF n = 0 THEN 0 ELSE SentUnadded(n) + SentUnaddedUpTo(n - 1)

\* C6 as claimed: the counter is never negative.
C6_NonNegative == pendingSize >= 0

\* C6 as amended: the counter is never lower than minus the byte size of the
\* sub-mutations sent by calls that have not yet run their atomic add; it is not
\* negative when no call is between its first send and its add.
C6_BoundedBelow == pendingSize >= -SentUnaddedUpTo(NumSubmitters)

\* A worker has subtracted a sub-mutation before its call added it.
C6_Witness == pendingSize < 0

\* The largest byte size of the edge list of a call made so far.
LargestSubmission ==
    IF calls = <<>> THEN 0
    ELSE LET c == CHOOSE x \in Started :
                     \A y \in Started : ListSize(calls[y].edges) <= ListSize(calls[x].edges)
         IN  ListSize(calls[c].edges)

\* The calls in progress when call c started, c included.
InProgressAt(c) == { d \in 1 .. c : d = c \/ d \notin calls[c].after }

\* The largest number of addEdges calls that were in progress at one time.
MaxInProgress ==
    IF calls = <<>> THEN 0
    ELSE LET c == CHOOSE x \in Started :
                     \A y \in Started :
                         Cardinality(InProgressAt(y)) <= Cardinality(InProgressAt(x))
         IN  Cardinality(InProgressAt(c))

\* C7 as claimed: the counter never exceeds the ceiling plus the largest
\* submission, whatever the number of concurrent submitters.
C7_CeilingPlusOne == pendingSize <= maxPendingEdgesSize + LargestSubmission

\* C7 as amended: the counter never exceeds the ceiling plus the largest
\* submission times the largest number of calls in progress at one time; for
\* calls that do not overlap this is the claimed bound.
C7_CeilingPlusOverlap ==
    pendingSize <= maxPendingEdgesSize + MaxInProgress * LargestSubmission

\* Two overlapping calls have pushed the counter past the ceiling plus the
\* largest submission.
C7_Witness ==
    /\ pendingSize > maxPendingEdgesSize + LargestSubmission
    /\ MaxInProgress = 2

\* The lanes call c has sent a sub-mutation on.
SentLanes(c) == { l \in Lanes : <<c, l>> \in enqueued }

\* C8: no partial enqueue. A call that has returned has sent on every lane of
\* its payloadMap, or on none when it saw the signal; while a call is between
\* two sends no channel is closed and shutdown has not got the write lock.
C8_NoPartialEnqueue ==
    /\ \A c \in returned :
          SentLanes(c) = IF c \in dropped THEN {} ELSE LanesOf(c)
    /\ \A s \in Submitters :
          spc[s] = "send" =>
              /\ shpc \notin {"close", "done"}
              /\ \A l \in Lanes : ~chClosed[l]

\* A call has sent one of its two sub-mutations while shutdown, signalled,
\* waits for the write lock.
C8_Witness ==
    \E s \in Submitters :
        /\ spc[s] = "send"
        /\ toSend[s] # {}
        /\ toSend[s] # DOMAIN payloadMap[s]
        /\ shpc = "locking"

\* Submitter s has built the payloadMap of its current call.
Built(s) == spc[s] \in {"rlock", "select", "send", "add", "runlock"}

\* The places <<lane, position>> of payloadMap pm that hold edge pointer p.
PlacesOf(pm, p) ==
    { x \in (DOMAIN pm) \X (1 .. MaxEdges) :
        x[2] <= Len(pm[x[1]].edges) /\ pm[x[1]].edges[x[2]] = p }

\* C9: routing partition. The payloadMap of a call has one entry per lane some
\* edge routes to and no other; every edge of the call is in exactly one entry,
\* the one of channelID(edge); every entry holds only edges of the call and
\* carries the call's ctx and startTs; what a channel or a worker holds routes
\* to that lane.
C9_RoutingPartition ==
    /\ \A s \in Submitters :
          Built(s) =>
              LET c == scall[s]
                  pm == payloadMap[s]
              IN  /\ DOMAIN pm = LanesOf(c)
                  /\ \A i \in 1 .. Len(calls[c].edges) :
                        /\ Cardinality(PlacesOf(pm, Ptr(c, i))) = 1
                        /\ \A x \in PlacesOf(pm, Ptr(c, i)) :
                              x[1] = channelID(calls[c].edges[i])
                  /\ \A l \in DOMAIN pm :
                        /\ pm[l].edges # <<>>
                        /\ \A j \in 1 .. Len(pm[l].edges) :
                              /\ pm[l].edges[j].call = c
                              /\ pm[l].edges[j].idx \in 1 .. Len(calls[c].edges)
                        /\ pm[l].ctx = calls[c].ctx
                        /\ pm[l].startTs = calls[c].startTs
    /\ \A l \in Lanes :
          /\ \A k \in 1 .. Len(workerChan[l]) :
                \A j \in 1 .. Len(workerChan[l][k].edges) :
                    channelID(Edge(workerChan[l][k].edges[j])) = l
          /\ \A j \in 1 .. Len(wpayload[l].edges) :
                channelID(Edge(wpayload[l].edges[j])) = l

\* A call has built a payloadMap with an entry for each of two lanes.
C9_Witness ==
    \E s \in Submitters : Built(s) /\ Cardinality(DOMAIN payloadMap[s]) = 2

\* C10: stable grouping. The edges of every payloadMap entry are in the order
\* of the call's edge list.
C10_StableGrouping ==
    \A s \in Submitters :
        Built(s) =>
            \A l \in DOMAIN payloadMap[s] :
                \A j, k \in 1 .. Len(payloadMap[s][l].edges) :
                    j < k => payloadMap[s][l].edges[j].idx < payloadMap[s][l].edges[k].idx

\* A payloadMap entry holds two edges.
C10_Witness ==
    \E s \in Submitters :
        Built(s) /\ \E l \in DOMAIN payloadMap[s] : Len(payloadMap[s][l].edges) >= 2

C12_BoundedBlocking ==
    /\ [](/\ \A l \in Lanes : Len(workerChan[l]) <= chanCap(l)
          /\ \A s \in Submitters :
                /\ scur[s] # -1 =>
                      /\ spc[s] = "send"
                      /\ s \in rwReaders
                      /\ scur[s] \in toSend[s]
                      /\ scur[s] \in DOMAIN payloadMap[s]
                      /\ <<scall[s], scur[s]>> \notin enqueued
                      /\ incs[scall[s]] = <<>>
                /\ (spc[s] \in {"add", "runlock"} /\ scall[s] \notin dropped) =>
                      SentLanes(scall[s]) = LanesOf(scall[s]))
    /\ [][\A s \in Submitters :
             (scur[s] # -1 /\ (scur'[s] # scur[s] \/ spc'[s] # spc[s])) =>
                 /\ Len(workerChan[scur[s]]) < chanCap(scur[s])
                 /\ workerChan'[scur[s]] = Append(workerChan[scur[s]], payloadMap[s][scur[s]])
                 /\ <<scall[s], scur[s]>> \in enqueued']_vars

\* A send is blocked on a full channel after the closer was signalled, while
\* shutdown waits for the write lock.
C12_Witness ==
    \E s \in Submitters :
        /\ scur[s] # -1
        /\ Len(workerChan[scur[s]]) = chanCap(scur[s])
        /\ closerSignalled
        /\ shpc = "locking"

\* C13: increment only on confirmed acceptance. A call that has not finished
\* its sends has added nothing; a call that has added has sent every one of its
\* sub-mutations; and the counter grows only by the step of a call whose sends
\* are all done, by the byte size of its edge list.
C13_IncrementAfterEnqueue ==
    /\ [](/\ \A c \in Started : incs[c] # <<>> => SentLanes(c) = LanesOf(c)
          /\ \A s \in Submitters :
                spc[s] \in {"ramp", "rlock", "select", "send", "add"} =>
                    incs[scall[s]] = <<>>)
    /\ [][pendingSize' > pendingSize =>
             \E s \in Submitters :
                 /\ spc[s] = "add"
                 /\ toSend[s] = {}
                 /\ SentLanes(scall[s]) = LanesOf(scall[s])
                 /\ incs'[scall[s]] = <<ListSize(calls[scall[s]].edges)>>
                 /\ pendingSize' = pendingSize + ListSize(calls[scall[s]].edges)]_vars

\* A call with sub-mutations for two lanes has sent both and then added.
C13_Witness ==
    \E s \in Submitters :
        /\ spc[s] = "runlock"
        /\ incs[scall[s]] # <<>>
        /\ Cardinality(SentLanes(scall[s])) = 2

\* The calls whose sub-mutation the worker of lane l has received, in order:
\* one NewTxn entry of wlog per payload received.
RECURSIVE dequeuedFrom(_, _)
dequeuedFrom(log, i) ==
    IF i > Len(log) THEN <<>>
    ELSE (IF log[i].op = "NewTxn" THEN <<log[i].call>> ELSE <<>>) \o dequeuedFrom(log, i + 1)

Dequeued(l) == dequeuedFrom(wlog[l], 1)

\* The calls whose sub-mutation waits in the channel of lane l, head first.
Queued(l) == [k \in 1 .. Len(workerChan[l]) |-> CallOf(workerChan[l][k])]

InProgress(l) == wpc[l] \in {"apply", "wait", "dec"}

\* C15: per-lane FIFO, one at a time. What a lane's worker has received,
\* followed by what waits in the channel, is what was sent on the lane, in the
\* order of the sends; the worker starts a sub-mutation only after the atomic
\* add that ends the one before, so the entries of two sub-mutations never
\* interleave; and it holds a payload exactly while it works on it.
C15_LaneFifo ==
    \A l \in Lanes :
        /\ sent[l] = Dequeued(l) \o Queued(l)
        /\ \A i \in 2 .. Len(wlog[l]) :
              IF wlog[l][i].op = "NewTxn"
              THEN wlog[l][i - 1].op = "AddInt64" /\ wlog[l][i].call # wlog[l][i - 1].call
              ELSE wlog[l][i].call = wlog[l][i - 1].call /\ wlog[l][i - 1].op # "AddInt64"
        /\ wlog[l] # <<>> => wlog[l][1].op = "NewTxn"
        /\ InProgress(l) =>
              /\ wpayload[l] # NoPayload
              /\ wlog[l] # <<>>
              /\ wlog[l][Len(wlog[l])].op # "AddInt64"
              /\ wlog[l][Len(wlog[l])].call = CallOf(wpayload[l])
        /\ ~InProgress(l) =>
              /\ wpayload[l] = NoPayload
              /\ wlog[l] # <<>> => wlog[l][Len(wlog[l])].op = "AddInt64"

\* Two sub-mutations wait in one channel while its worker is still busy with
\* nothing: the order of the receives is the channel's to decide.
C15_Witness ==
    \E l \in Lanes : Len(workerChan[l]) = 2 /\ wlog[l] = <<>>

\* The positions, in the edge list of call c, of the edges that route to lane l.
RECURSIVE laneIdxsFrom(_, _, _)
laneIdxsFrom(es, l, i) ==
    IF i > Len(es) THEN <<>>
    ELSE (IF channelID(es[i]) = l THEN <<i>> ELSE <<>>) \o laneIdxsFrom(es, l, i + 1)

LaneIdxs(c, l) == laneIdxsFrom(calls[c].edges, l, 1)

\* What the worker of lane l is to do for the sub-mutation of call c, as
\* <<call made, argument>>, in order.
Protocol(c, l) ==
    << <<"NewTxn", calls[c].startTs>> >>
    \o [k \in 1 .. Len(LaneIdxs(c, l)) |-> <<"runMutation", LaneIdxs(c, l)[k]>>]
    \o << <<"Update", 0>>,
          <<"CommitToDisk", calls[c].startTs>>,
          <<"Wait", 0>>,
          <<"AddInt64", 0 - SubSize(<<c, l>>)>> >>

\* The entries of wlog[l] made for the sub-mutation of call c.
RECURSIVE eventsFrom(_, _, _)
eventsFrom(log, c, i) ==
    IF i > Len(log) THEN <<>>
    ELSE (IF log[i].call = c THEN <<log[i]>> ELSE <<>>) \o eventsFrom(log, c, i + 1)

EventsOf(l, c) == eventsFrom(wlog[l], c, 1)

OnOverlay == {"NewTxn", "runMutation", "Update", "CommitToDisk"}

\* C16: the commit protocol of a sub-mutation. What a worker has done for a
\* sub-mutation is a prefix of: NewTxn with its start timestamp, runMutation
\* for each of its edges in order, Update, CommitToDisk with its start
\* timestamp, Wait, the atomic add of minus its size; it is all of it once the
\* add has run, and nothing for a sub-mutation never sent. Every call on an
\* overlay is on the one NewTxn returned for this sub-mutation, and no two
\* sub-mutations share an overlay.
C16_CommitProtocol ==
    \A l \in Lanes :
        /\ \A c \in Started :
              LET ev == EventsOf(l, c)
                  pr == Protocol(c, l)
              IN  /\ Len(ev) <= Len(pr)
                  /\ \A i \in 1 .. Len(ev) : <<ev[i].op, ev[i].arg>> = pr[i]
                  /\ decs[<<c, l>>] # <<>> => Len(ev) = Len(pr)
                  /\ <<c, l>> \notin enqueued => ev = <<>>
                  /\ \A i \in 1 .. Len(ev) :
                        ev[i].op \in OnOverlay => ev[i].txn > 0 /\ ev[i].txn = ev[1].txn
                  /\ \A d \in Started \ {c} :
                        (ev # <<>> /\ EventsOf(l, d) # <<>>) => EventsOf(l, d)[1].txn # ev[1].txn
        /\ InProgress(l) =>
              /\ ptxn[l].startTs = wpayload[l].startTs
              /\ ptxn[l].updated = (wpc[l] # "apply")

\* A lane's worker has gone through the whole protocol for two sub-mutations
\* with different start timestamps, one of them of two edges.
C16_Witness ==
    \E l \in Lanes : \E c, d \in Started :
        /\ c # d
        /\ decs[<<c, l>>] # <<>>
        /\ decs[<<d, l>>] # <<>>
        /\ Len(LaneIdxs(c, l)) = 2
        /\ calls[c].startTs # calls[d].startTs

\* C17: transient retry. A runMutation that returns ErrRetry leaves the worker
\* on the same edge of the same payload, with nothing committed and nothing
\* recorded as finished; while the worker is retrying it does nothing but call
\* runMutation for that edge again, which may return ErrRetry again without
\* limit; and the worker moves on, by one edge, exactly when runMutation
\* returns nil or another error.
C17_TransientRetry ==
    /\ [](\A l \in Lanes :
             wretry[l] =>
                 /\ wpc[l] = "apply"
                 /\ widx[l] <= Len(wpayload[l].edges)
                 /\ edgeAt(wpayload[l], widx[l]) \in applied
                 /\ ENABLED ApplyWith(l, "ErrRetry"))
    /\ [][\A l \in Lanes :
             /\ ApplyWith(l, "ErrRetry") =>
                   /\ wretry'[l]
                   /\ widx'[l] = widx[l]
                   /\ wpc'[l] = "apply"
                   /\ wpayload'[l] = wpayload[l]
                   /\ ptxn'[l] = ptxn[l]
                   /\ wlog'[l] = wlog[l]
                   /\ \A c \in CallIds : commits'[<<c, l>>] = commits[<<c, l>>]
             /\ (ApplyWith(l, "nil") \/ ApplyWith(l, "error")) =>
                   /\ ~wretry'[l]
                   /\ widx'[l] = widx[l] + 1
             /\ (wpc[l] = "apply" /\ wpc'[l] = "apply" /\ widx'[l] # widx[l]) =>
                   /\ widx'[l] = widx[l] + 1
                   /\ ApplyWith(l, "nil") \/ ApplyWith(l, "error")
             /\ wretry[l] =>
                   /\ wpc'[l] = "apply"
                   /\ wpayload'[l] = wpayload[l]
                   /\ \A c \in CallIds : commits'[<<c, l>>] = commits[<<c, l>>]]_vars

\* The worker is retrying the second edge of a payload, the first having ended
\* in an error that is not ErrRetry.
C17_Witness ==
    \E l \in Lanes :
        /\ wretry[l]
        /\ widx[l] = 2
        /\ wlog[l][Len(wlog[l])].op = "runMutation"
        /\ wlog[l][Len(wlog[l])].err = "error"

\* The positions of wlog[l] after position i that hold an entry of call c
\* for the call `op`.
Later(l, i, c, op) ==
    { j \in (i + 1) .. Len(wlog[l]) : wlog[l][j].call = c /\ wlog[l][j].op = op }

\* The worker of lane l is past the loop over the edges of the sub-mutation of
\* call c.
PastEdges(l, c) ==
    \/ Later(l, 0, c, "Update") # {}
    \/ InProgress(l) /\ CallOf(wpayload[l]) = c /\ canCommit(l)

\* The sub-mutation of call c is done with on lane l.
Finished(l, c) == Later(l, 0, c, "AddInt64") # {}

\* C18: a fatal apply error is skipped. Once runMutation has returned an error
\* that is not ErrRetry for an edge, runMutation is not called for that edge
\* again: the worker is on a later edge of the payload, or past its edges;
\* once it is past them, runMutation has returned for every later edge of the
\* sub-mutation, in order; the sub-mutation is then updated and committed
\* once; and the worker is either still at work on the sub-mutation or has
\* ended it with the atomic add.
C18_FatalSkipped ==
    \A l \in Lanes : \A i \in 1 .. Len(wlog[l]) :
        LET e == wlog[l][i]
            c == e.call
        IN  (e.op = "runMutation" /\ e.err = "error") =>
                /\ Later(l, i, c, "runMutation") \cap
                       { j \in 1 .. Len(wlog[l]) : wlog[l][j].arg <= e.arg } = {}
                /\ (InProgress(l) /\ CallOf(wpayload[l]) = c /\ ~canCommit(l)) =>
                       edgeAt(wpayload[l], widx[l]).idx > e.arg
                /\ PastEdges(l, c) =>
                       \A k \in 1 .. Len(LaneIdxs(c, l)) :
                           LaneIdxs(c, l)[k] > e.arg =>
                               \E j \in Later(l, i, c, "runMutation") :
                                   wlog[l][j].arg = LaneIdxs(c, l)[k]
                /\ (wpc[l] \in {"wait", "dec"} /\ CallOf(wpayload[l]) = c) \/ Finished(l, c) =>
                       /\ Cardinality(Later(l, i, c, "Update")) = 1
                       /\ Cardinality(Later(l, i, c, "CommitToDisk")) = 1
                /\ (InProgress(l) /\ CallOf(wpayload[l]) = c) \/ Finished(l, c)
                /\ wpc[l] = "exited" => Finished(l, c)

\* runMutation has returned an error for the first edge of a payload of two,
\* nil for the second, and the sub-mutation has been committed.
C18_Witness ==
    \E l \in Lanes : \E i \in 1 .. Len(wlog[l]) :
        /\ wlog[l][i].op = "runMutation"
        /\ wlog[l][i].err = "error"
        /\ \E j \in Later(l, i, wlog[l][i].call, "runMutation") : wlog[l][j].err = "nil"
        /\ Later(l, i, wlog[l][i].call, "CommitToDisk") # {}

\* C19: commit and durability failures are best effort. When CommitToDisk or
\* Wait has returned an error for a sub-mutation, CommitToDisk has been called
\* once for it and Wait at most once; the worker is at its Wait, at its atomic
\* add, with esize equal to the byte size of its edges, or has run the add,
\* once, by minus that size, as for a sub-mutation with no failure; and the
\* worker has not left with a payload still in its channel.
C19_BestEffortCommit ==
    \A l \in Lanes :
        /\ \A i \in 1 .. Len(wlog[l]) :
              LET e == wlog[l][i]
                  c == e.call
              IN  (e.op \in {"CommitToDisk", "Wait"} /\ e.err = "error") =>
                      /\ Cardinality(Later(l, 0, c, "CommitToDisk")) = 1
                      /\ commits[<<c, l>>] = 1
                      /\ Cardinality(Later(l, 0, c, "Wait")) <= 1
                      /\ \/ /\ InProgress(l)
                            /\ CallOf(wpayload[l]) = c
                            /\ wpc[l] \in {"wait", "dec"}
                            /\ wesize[l] = SubSize(<<c, l>>)
                            /\ decs[<<c, l>>] = <<>>
                         \/ /\ Finished(l, c)
                            /\ decs[<<c, l>>] = <<SubSize(<<c, l>>)>>
                            /\ \A j \in Later(l, 0, c, "AddInt64") :
                                  wlog[l][j].arg = 0 - SubSize(<<c, l>>)
        /\ \A c \in Started :
              (Finished(l, c) /\ decs[<<c, l>>] # <<>>) => decs[<<c, l>>] = <<SubSize(<<c, l>>)>>
        /\ wpc[l] = "exited" => workerChan[l] = <<>>

\* On one lane a sub-mutation whose commit and whose wait both failed, and one
\* of whose edges failed, has been subtracted, and the worker has gone on to
\* the next sub-mutation of its channel.
C19_Witness ==
    \E l \in Lanes : \E i, j, k, n \in 1 .. Len(wlog[l]) :
        /\ wlog[l][i].op = "runMutation" /\ wlog[l][i].err = "error"
        /\ wlog[l][j].op = "CommitToDisk" /\ wlog[l][j].err = "error"
        /\ wlog[l][k].op = "Wait" /\ wlog[l][k].err = "error"
        /\ wlog[l][i].call = wlog[l][j].call
        /\ wlog[l][j].call = wlog[l][k].call
        /\ n > k
        /\ wlog[l][n].op = "NewTxn"

\* The lifecycle state of the worker of lane l.
phase(l) ==
    IF wpc[l] = "exited" THEN "STOPPED"
    ELSE IF chClosed[l] THEN "DRAINING" ELSE "RUNNING"

\* C20: worker lifecycle. Every worker runs from the initial state on, before
\* anything is sent. A worker that has exited has a closed and empty channel
\* and holds no payload, and the closer counts exactly the workers that have
\* not exited. A worker goes from RUNNING to DRAINING to STOPPED and never
\* back; it exits only from the head of its loop with its channel closed and
\* empty; the closer's count goes down only by one, with the exit of a worker.
C20_WorkerLifecycle ==
    /\ [](/\ \A l \in Lanes :
                /\ wpc[l] \in {"recv", "apply", "wait", "dec", "exited"}
                /\ (sent[l] = <<>> /\ wpc[l] # "exited") => wpc[l] = "recv"
                /\ wpc[l] = "exited" =>
                      chClosed[l] /\ workerChan[l] = <<>> /\ wpayload[l] = NoPayload
          /\ closerRunning = Cardinality({ l \in Lanes : wpc[l] # "exited" }))
    /\ [][/\ \A l \in Lanes :
                /\ \/ phase(l)' = phase(l)
                   \/ phase(l) = "RUNNING" /\ phase(l)' = "DRAINING"
                   \/ phase(l) = "DRAINING" /\ phase(l)' = "STOPPED"
                /\ (wpc'[l] = "exited" /\ wpc[l] # "exited") =>
                      /\ wpc[l] = "recv"
                      /\ chClosed[l]
                      /\ workerChan[l] = <<>>
                      /\ closerRunning' = closerRunning - 1
          /\ closerRunning' # closerRunning =>
                /\ closerRunning' = closerRunning - 1
                /\ \E l \in Lanes : wpc[l] # "exited" /\ wpc'[l] = "exited"]_vars

\* One worker has exited while another, its channel closed, still has a
\* payload to receive and one at hand.
C20_Witness ==
    \E l, k \in Lanes :
        /\ phase(l) = "STOPPED"
        /\ phase(k) = "DRAINING"
        /\ workerChan[k] # <<>>
        /\ InProgress(k)

\* C14: admission only delays. From rampMeter a call goes nowhere but on to
\* the grouping, as the same call with the same edges; a step of a caller in
\* rampMeter changes neither the counter nor any channel; the payloadMap built
\* next holds, lane by lane, the edges of the call in the order of its edge
\* list; and a call that rampMeter has delayed gets past it in the end.
C14_AdmissionOnlyDelays ==
    /\ [][\A s \in Submitters :
             spc[s] = "ramp" =>
                 /\ spc'[s] \in {"ramp", "rlock"}
                 /\ scall'[s] = scall[s]
                 /\ calls'[scall[s]] = calls[scall[s]]
                 /\ scall[s] \notin dropped'
                 /\ (spc'[s] # spc[s] \/ delayed'[s] # delayed[s]) =>
                       /\ pendingSize' = pendingSize
                       /\ workerChan' = workerChan
                       /\ incs' = incs
                 /\ spc'[s] = "rlock" =>
                       /\ DOMAIN payloadMap'[s] = LanesOf(scall[s])
                       /\ \A l \in LanesOf(scall[s]) :
                             payloadMap'[s][l].edges =
                                 [k \in 1 .. Len(LaneIdxs(scall[s], l)) |->
                                     Ptr(scall[s], LaneIdxs(scall[s], l)[k])]]_vars
    /\ \A s \in Submitters : (spc[s] = "ramp" /\ delayed[s]) ~> (spc[s] = "rlock")

\* A call that rampMeter delayed has got past it and has sent a sub-mutation.
C14_Witness ==
    \E s \in Submitters :
        /\ delayed[s]
        /\ spc[s] \in {"send", "add"}
        /\ SentLanes(scall[s]) # {}

\* The sub-mutation of call c waits in the channel of lane l.
InChannel(l, c) == \E k \in 1 .. Len(workerChan[l]) : CallOf(workerChan[l][k]) = c

\* The worker of lane l has received the sub-mutation of call c and has not
\* run the atomic add for it.
AtWorker(l, c) == InProgress(l) /\ CallOf(wpayload[l]) = c

\* C21: in-flight work is never cancelled. Whatever the closer and the
\* contexts are, a sub-mutation that was sent waits in its channel untouched,
\* or is at its worker, or has gone through the whole of the protocol with one
\* commit and the atomic add of minus its size; a worker that holds a payload
\* or finds one in its channel can always take its next step, and none has
\* exited with a payload left. The signal and a cancellation change nothing of
\* the channels, the workers or the counter; a payload leaves a channel only
\* into the hands of its worker; the worker leaves the edges only past the
\* last of them, for the commit, then the wait, then the atomic add. A call
\* that got past the shutdown check before the signal still sends as soon as
\* its channel has room.
C21_NeverCancelled ==
    /\ [](/\ \A l \in Lanes :
                /\ \A c \in Started :
                      <<c, l>> \in enqueued =>
                          \/ /\ InChannel(l, c)
                             /\ ~AtWorker(l, c)
                             /\ EventsOf(l, c) = <<>>
                          \/ /\ AtWorker(l, c)
                             /\ ~InChannel(l, c)
                             /\ decs[<<c, l>>] = <<>>
                          \/ /\ Finished(l, c)
                             /\ ~InChannel(l, c)
                             /\ ~AtWorker(l, c)
                             /\ commits[<<c, l>>] = 1
                             /\ decs[<<c, l>>] = <<SubSize(<<c, l>>)>>
                             /\ Len(EventsOf(l, c)) = Len(Protocol(c, l))
                /\ InProgress(l) => ENABLED WorkerProgress(l)
                /\ (wpc[l] = "recv" /\ workerChan[l] # <<>>) => ENABLED Recv(l)
                /\ wpc[l] = "exited" => workerChan[l] = <<>>
          /\ \A s \in Submitters :
                (spc[s] = "send" /\ closerSignalled) =>
                    \A cid \in nextKeys(s) :
                        Len(workerChan[cid]) < chanCap(cid) => ENABLED Send(s, cid))
    /\ [][/\ (closerSignalled' # closerSignalled \/ cancelled' # cancelled) =>
                UNCHANGED <<workerChan, wrkVars, pendingSize, commits, decs, wlog>>
          /\ \A l \in Lanes :
                /\ workerChan'[l] # workerChan[l] =>
                      \/ /\ Len(workerChan'[l]) = Len(workerChan[l]) + 1
                         /\ SubSeq(workerChan'[l], 1, Len(workerChan[l])) = workerChan[l]
                      \/ /\ workerChan[l] # <<>>
                         /\ workerChan'[l] = Tail(workerChan[l])
                         /\ wpc[l] = "recv"
                         /\ wpc'[l] = "apply"
                         /\ wpayload'[l] = Head(workerChan[l])
                /\ InProgress(l) =>
                      /\ wpayload'[l] # wpayload[l] => wpc[l] = "dec"
                      /\ wpc'[l] # wpc[l] =>
                            \/ /\ wpc[l] = "apply"
                               /\ wpc'[l] = "wait"
                               /\ widx[l] = Len(wpayload[l].edges) + 1
                               /\ commits'[<<CallOf(wpayload[l]), l>>] = 1
                            \/ /\ wpc[l] = "wait"
                               /\ wpc'[l] = "dec"
                            \/ /\ wpc[l] = "dec"
                               /\ wpc'[l] = "recv"
                               /\ pendingSize' =
                                      pendingSize - SubSize(<<CallOf(wpayload[l]), l>>)
                      /\ widx'[l] # widx[l] => widx'[l] = widx[l] + 1 \/ wpc[l] = "dec"]_vars

\* A worker whose channel is closed is at the atomic add for a payload whose
\* context was cancelled early enough for runMutation to give an edge up on
\* it, and the next payload of its channel has a cancelled context too.
C21_Witness ==
    \E l \in Lanes :
        /\ closerSignalled
        /\ chClosed[l]
        /\ wpc[l] = "dec"
        /\ wpayload[l].ctx \in cancelled
        /\ \E i \in 1 .. Len(wlog[l]) :
              /\ wlog[l][i].call = CallOf(wpayload[l])
              /\ wlog[l][i].op = "runMutation"
              /\ wlog[l][i].err = "error"
              /\ wlog[l][i].arg # wlog[l][i].call
        /\ workerChan[l] # <<>>
        /\ workerChan[l][1].ctx \in cancelled
        /\ workerChan[l][1].ctx # wpayload[l].ctx

\* Something is still to be done: a call is inside addEdges, shutdown has been
\* asked for and has not returned, or a worker has a payload at hand or in its
\* channel, or a closed channel to leave.
Unfinished ==
    \/ \E s \in Submitters : spc[s] # "idle"
    \/ closerSignalled /\ shpc # "done"
    \/ \E l \in Lanes :
           wpc[l] # "exited" /\ (InProgress(l) \/ workerChan[l] # <<>> \/ chClosed[l])

\* Shutdown has returned with every channel closed, and every worker has left.
Drained ==
    /\ shpc = "done"
    /\ rwWriter = "free"
    /\ \A l \in Lanes : chClosed[l] /\ workerChan[l] = <<>> /\ wpc[l] = "exited"
    /\ closerRunning = 0

\* C22: shutdown terminates without deadlock. As long as something is still
\* to be done, a caller inside addEdges, shutdown or a worker can take a step;
\* and once the closer is signalled, shutdown gets the write lock, and then
\* every channel is closed, shutdown returns and every worker leaves.
C22_ShutdownTerminates ==
    /\ [](Unfinished =>
             \/ \E s \in Submitters : ENABLED SubmitterProgress(s)
             \/ ENABLED ShutdownStep
             \/ \E l \in Lanes : ENABLED WorkerProgress(l))
    /\ (closerSignalled /\ shpc \in {"wait", "locking"}) ~> (rwWriter = "held")
    /\ closerSignalled ~> Drained

\* The closer is signalled and shutdown waits for the write lock while one
\* caller, holding the read lock, is blocked on a full channel and another
\* waits for the read lock.
C22_Witness ==
    \E s, r \in Submitters :
        /\ closerSignalled
        /\ rwWriter = "pending"
        /\ scur[s] # -1
        /\ s \in rwReaders
        /\ Len(workerChan[scur[s]]) = chanCap(scur[s])
        /\ spc[r] = "rlock"

\* The byte size of the edge lists of the calls whose atomic add has run.
RECURSIVE AddedUpTo(_)
AddedUpTo(c) ==
    IF c = 0 THEN 0
    ELSE (IF incs[c] # <<>> THEN ListSize(calls[c].edges) ELSE 0) + AddedUpTo(c - 1)

\* The byte size of the sub-mutations of lane l whose atomic add has run.
RECURSIVE SubtractedUpTo(_, _)
SubtractedUpTo(l, c) ==
    IF c = 0 THEN 0
    ELSE (IF decs[<<c, l>>] # <<>> THEN SubSize(<<c, l>>) ELSE 0) + SubtractedUpTo(l, c - 1)

RECURSIVE SubtractedOn(_)
SubtractedOn(l) ==
    IF l < 0 THEN 0 ELSE SubtractedUpTo(l, Len(calls)) + SubtractedOn(l - 1)

\* The byte size of the edge lists of the calls of submitters 1 .. n that have
\* sent a sub-mutation and have not run their atomic add.
RECURSIVE MidSendUpTo(_)
MidSendUpTo(n) ==
    IF n = 0 THEN 0
    ELSE (IF spc[n] \in {"send", "add"} /\ SentLanes(scall[n]) # {}
          THEN ListSize(calls[scall[n]].edges) ELSE 0) + MidSendUpTo(n - 1)

\* C23: counter accounting identity. The counter is the byte size of the edge
\* lists of the calls that have run their atomic add, less the byte size of
\* the sub-mutations the workers have run theirs for; so it is never lower
\* than minus the byte size of the edge lists of the calls that have sent
\* something and not yet added; and the read lock is held by exactly the
\* callers between their shutdown check and their return, the atomic add
\* included.
C23_AccountingIdentity ==
    /\ pendingSize = AddedUpTo(Len(calls)) - SubtractedOn(NumLanes - 1)
    /\ pendingSize >= 0 - MidSendUpTo(NumSubmitters)
    /\ rwReaders = { s \in Submitters : spc[s] \in {"select", "send", "add", "runlock"} }
    /\ \A s \in Submitters :
          (spc[s] = "runlock" /\ scall[s] \notin dropped) => incs[scall[s]] # <<>>

\* One call has added; another, its sends done, has had a sub-mutation of two
\* edges subtracted before its own add.
C23_Witness ==
    /\ \E c \in Started : incs[c] # <<>>
    /\ \E s \in Submitters :
          /\ spc[s] = "add"
          /\ \E l \in SentLanes(scall[s]) :
                /\ decs[<<scall[s], l>>] # <<>>
                /\ Len(LaneIdxs(scall[s], l)) = 2
          /\ s \in rwReaders

====
